---- MODULE Spec2Model ----
(***************************************************************************)
(* A model of the RDF-conversion pipeline: term refinement (step 2),       *)
(* ontology alignment (step 3) and graph assembly (step 4).                *)
(*                                                                         *)
(* Text is modelled as a sequence of one-character strings, so that        *)
(* splitting, casing, regular-expression matching and percent-encoding are *)
(* computed on the characters as the code computes them.                   *)
(***************************************************************************)
EXTENDS Integers, Sequences, FiniteSets, TLC

(***************************************************************************)
(* Characters and the string functions of the Python runtime the code uses *)
(***************************************************************************)
Lowers == <<"a","b","c","d","e","f","g","h","i","j","k","l","m",
            "n","o","p","q","r","s","t","u","v","w","x","y","z">>
Uppers == <<"A","B","C","D","E","F","G","H","I","J","K","L","M",
            "N","O","P","Q","R","S","T","U","V","W","X","Y","Z">>
Digits == <<"0","1","2","3","4","5","6","7","8","9">>

Range(s) == {s[i] : i \in 1..Len(s)}

IsLower(c) == c \in Range(Lowers)
IsUpper(c) == c \in Range(Uppers)
IsDigit(c) == c \in Range(Digits)
IsAlnum(c) == IsLower(c) \/ IsUpper(c) \/ IsDigit(c)
\* the class \w of the re module
IsWord(c) == IsAlnum(c) \/ c = "_"
\* the class \s of the re module, and what str.split() and str.strip() drop
IsSpace(c) == c \in {" ", "\t", "\n"}

IndexOf(s, c) == CHOOSE i \in 1..Len(s) : s[i] = c
\* str.lower() and str.upper() on one character
LowerChar(c) == IF IsUpper(c) THEN Lowers[IndexOf(Uppers, c)] ELSE c
UpperChar(c) == IF IsLower(c) THEN Uppers[IndexOf(Lowers, c)] ELSE c
DigitValue(c) == IndexOf(Digits, c) - 1

\* str.lower()
Lower(s) == [i \in 1..Len(s) |-> LowerChar(s[i])]
\* str.capitalize(): first character upper-cased, the rest lower-cased
Capitalize(s) == [i \in 1..Len(s) |-> IF i = 1 THEN UpperChar(s[i]) ELSE LowerChar(s[i])]

RECURSIVE Concat(_)
\* ''.join(words)
Concat(words) == IF words = <<>> THEN <<>> ELSE Head(words) \o Concat(Tail(words))

RECURSIVE LStrip(_)
LStrip(s) == IF s # <<>> /\ IsSpace(Head(s)) THEN LStrip(Tail(s)) ELSE s
RECURSIVE RStrip(_)
RStrip(s) ==
    IF s # <<>> /\ IsSpace(s[Len(s)]) THEN RStrip(SubSeq(s, 1, Len(s) - 1)) ELSE s
\* str.strip()
Strip(s) == RStrip(LStrip(s))

RECURSIVE SplitOn(_, _, _)
\* str.split(sep): the pieces between the separators, empty pieces kept
SplitOn(s, sep, cur) ==
    IF s = <<>> THEN <<cur>>
    ELSE IF Head(s) = sep THEN <<cur>> \o SplitOn(Tail(s), sep, <<>>)
    ELSE SplitOn(Tail(s), sep, Append(cur, Head(s)))
SplitLines(s) == SplitOn(s, "\n", <<>>)

RECURSIVE SplitWs(_, _)
\* str.split(): the maximal runs of non-whitespace characters
SplitWs(s, cur) ==
    IF s = <<>> THEN (IF cur = <<>> THEN <<>> ELSE <<cur>>)
    ELSE IF IsSpace(Head(s))
         THEN (IF cur = <<>> THEN <<>> ELSE <<cur>>) \o SplitWs(Tail(s), <<>>)
         ELSE SplitWs(Tail(s), Append(cur, Head(s)))
Words(s) == SplitWs(s, <<>>)

\* re.sub(r'[^a-zA-Z0-9]', '', s)
StripNonAlnum(s) == SelectSeq(s, IsAlnum)

\* str.replace(" ", "_")
ReplaceSpaces(s) == [i \in 1..Len(s) |-> IF s[i] = " " THEN "_" ELSE s[i]]

\* the characters urllib.parse.quote never encodes
IsUnreserved(c) == IsAlnum(c) \/ c \in {"_", ".", "-", "~"}
\* the two hexadecimal digits of the character's byte
HexCode(c) ==
    CASE c = " " -> <<"2", "0">>
      [] c = "/" -> <<"2", "F">>
      [] c = "(" -> <<"2", "8">>
      [] c = ")" -> <<"2", "9">>
      [] c = "%" -> <<"2", "5">>
      [] OTHER   -> <<"3", "F">>
RECURSIVE Quote(_)
\* urllib.parse.quote(s, safe="")
Quote(s) ==
    IF s = <<>> THEN <<>>
    ELSE (IF IsUnreserved(Head(s)) THEN <<Head(s)>> ELSE <<"%">> \o HexCode(Head(s)))
         \o Quote(Tail(s))


(***************************************************************************)
(* State                                                                   *)
(***************************************************************************)
VARIABLES
    \* the file system and the services outside the process
    files,              \* the parquet input and the artifact of each step
    external_calls      \* history: the calls of external services (suggestion service,
                        \* ontology endpoint, embedding model) by the running step

VARIABLES
    \* run_pipeline: main and run_steps
    args,               \* --step and --from; 0 when the option is not given
    env,                \* where main runs and whether it finds the artifacts directory
    stage,              \* the entry of STEPS the loop of run_steps stands at
    pcr,                \* position in main and run_steps
    run_log,            \* history: the steps called, with what each returned
    validated,          \* validate() was called
    exit_status         \* what main returned to sys.exit; -1 while running

VARIABLES
    \* step 1, run
    extracted_written,  \* EXTRACTED_DATA was written by this run
    result1,            \* what run() returned
    pc1                 \* position in run()

VARIABLES
    \* step 4, run and convert_to_rdf
    data4,              \* the loaded artifact: the two lookups and the two lists
    entities,           \* data["entities"], as far as the loop has read it
    relationships,      \* data["relationships"], as far as the loop has read it
    graph,              \* the rdflib Graph: a set of triples
    entity_lookup,      \* name -> entity URI
    entities_added, entities_typed, entities_fallback,
    rels_added, rels_skipped,
    rel_log,            \* history: what the loop did with each relationship
    rdf_written,        \* FINAL_RDF was written by this run
    result4,            \* what run() returned
    pc4                 \* position in run()

VARIABLES
    \* step 3, run and map_to_dbo
    config3,            \* TYPE_SIMILARITY_THRESHOLD, PREDICATE_SIMILARITY_THRESHOLD
    data3,              \* the refined artifact: types and predicates, in dict order
    cache_files,        \* DBO_CLASSES_CACHE, DBO_PROPERTIES_CACHE: None when absent
    dbo_classes, dbo_props,     \* the term sets run() loaded
    mapper_model,       \* EmbeddingMapper.model is loaded
    mapper_embeddings,  \* EmbeddingMapper._embeddings: cache key -> vectors
    encode_calls,       \* history: the calls of model.encode, counted by what they embed
    mapped_types, mapped_predicates,
    type_mapped, type_fallback, pred_mapped, pred_fallback,
    last_match,         \* history: the last find_best_match call and what it returned
    mapped_written,     \* MAPPED_DATA was written by this run
    result3,            \* what run() returned
    pc3                 \* position in run()

VARIABLES
    \* step 2, run
    data2,              \* the extracted artifact: the keys of types and predicates
    use_llm,            \* what check_llm_available returned
    type_mappings, pred_mappings,
    refined_types, refined_predicates,      \* raw label -> refined token
    batch_start,        \* the index i of the loop over the predicate batches
    llm_calls,          \* history: the calls of call_ollama, with their batches
    refined_written,    \* REFINED_DATA was written by this run
    result2,            \* what run() returned
    pc2                 \* position in run()

vars2 == <<data2, use_llm, type_mappings, pred_mappings, refined_types,
           refined_predicates, batch_start, llm_calls, refined_written, result2, pc2>>

vars3 == <<config3, data3, cache_files, dbo_classes, dbo_props, mapper_model,
           mapper_embeddings, encode_calls, mapped_types, mapped_predicates,
           type_mapped,
           type_fallback, pred_mapped, pred_fallback, last_match, mapped_written,
           result3, pc3>>

vars4 == <<data4, entities, relationships, graph, entity_lookup, entities_added,
           entities_typed, entities_fallback, rels_added, rels_skipped, rel_log,
           rdf_written, result4, pc4>>

vars1 == <<extracted_written, result1, pc1>>

\* the locals of each run(): what a call starts afresh and a return discards
locals1 == <<extracted_written, result1>>
locals2 == <<data2, use_llm, type_mappings, pred_mappings, refined_types,
             refined_predicates, batch_start, llm_calls, refined_written, result2>>
locals3 == <<data3, dbo_classes, dbo_props, mapper_model, mapper_embeddings,
             encode_calls, mapped_types, mapped_predicates, type_mapped, type_fallback,
             pred_mapped, pred_fallback, last_match, mapped_written, result3>>
locals4 == <<data4, entities, relationships, graph, entity_lookup, entities_added,
             entities_typed, entities_fallback, rels_added, rels_skipped, rel_log,
             rdf_written, result4>>

varsR == <<args, env, stage, pcr, run_log, validated, exit_status>>

vars == <<files, external_calls, varsR, vars1, vars2, vars3, vars4>>
\* what a step leaves alone: the state of the other steps and of run_steps
rest1 == <<varsR, vars2, vars3, vars4>>
rest2 == <<varsR, vars1, vars3, vars4>>
rest3 == <<varsR, vars1, vars2, vars4>>
rest4 == <<varsR, vars1, vars2, vars3>>

\* dict.get(key) on a dict modelled as a function; None is the empty tuple
None == <<>>
Get(d, k) == IF k \in DOMAIN d THEN d[k] ELSE None
\* Python truth of a string, a URIRef or None
Truthy(v) == v # <<>>
EmptyDict == [k \in {} |-> None]
\* d[k] = v
Put(d, k, v) == [x \in DOMAIN d \cup {k} |-> IF x = k THEN v ELSE d[x]]

\* a path of the file system: absent, or a file with its content
AbsentFile == [exists |-> FALSE, content |-> <<>>]
File(content) == [exists |-> TRUE, content |-> content]
\* no parquet input and no artifact
NoFiles ==
    [name \in {"parquet", "extracted", "refined", "mapped", "final"} |-> AbsentFile]
\* a test that finds every artifact present
ArtifactMissingNever(file) == FALSE
\* if not EXTRACTED_DATA.exists(), if not REFINED_DATA.exists(),
\* if not MAPPED_DATA.exists()
ArtifactMissing(file) == ~file.exists

(***************************************************************************)
(* Step 4: convert to RDF                                                  *)
(***************************************************************************)
\* A URI is a pair <<namespace, local name>>
GRAPHRAG(local) == <<"gr", local>>
DBO(local) == <<"dbo", local>>
RDFS_label == <<"rdfs", <<"l","a","b","e","l">>>>
RDF_type == <<"rdf", <<"t","y","p","e">>>>
FALLBACK_TYPE == <<"owl", <<"T","h","i","n","g">>>>
wikiPageWikiLink ==
    DBO(<<"w","i","k","i","P","a","g","e","W","i","k","i","L","i","n","k">>)
Literal(text) == <<"literal", text>>
Triple(s, p, o) == [s |-> s, p |-> p, o |-> o]

\* f"{safe_name}_{entity_id}"
create_entity_uri(name, entity_id) ==
    Quote(ReplaceSpaces(name)) \o <<"_">> \o entity_id

\* a lookup that keeps the first URI stored under a name
StoreInLookupFirstWins(lookup, name, uri) ==
    [n \in DOMAIN lookup \cup {name} |-> IF n \in DOMAIN lookup THEN lookup[n] ELSE uri]
\* entity_lookup[name] = entity_uri
StoreInLookup(lookup, name, uri) ==
    [n \in DOMAIN lookup \cup {name} |-> IF n = name THEN uri ELSE lookup[n]]

\* the type triple's object for an entity
TypeUriOf(type_lookup, orig_type) ==
    IF Truthy(orig_type) /\ orig_type \in DOMAIN type_lookup
    THEN type_lookup[orig_type]
    ELSE FALLBACK_TYPE

\* a predicate choice that ignores the registry
PredUriOfAlwaysFallback(pred_lookup, orig_desc) == wikiPageWikiLink
\* the predicate of a relationship's triple
PredUriOf(pred_lookup, orig_desc) ==
    IF Truthy(orig_desc) /\ orig_desc \in DOMAIN pred_lookup
    THEN pred_lookup[orig_desc]
    ELSE wikiPageWikiLink

\* a skip test that needs both endpoints to be missing
SkipRelationshipBothMissing(source_uri, target_uri) ==
    ~Truthy(source_uri) /\ ~Truthy(target_uri)
\* whether the relationship loop skips a relationship
SkipRelationship(source_uri, target_uri) == ~Truthy(source_uri) \/ ~Truthy(target_uri)

\* the inputs of step 4
MaxRels == 2
NameX == <<"x">>
NameX1 == <<"x"," ","1">>
NameQ == <<"q">>
EntityNames == {NameX, NameX1}
EntityIds == {<<"2">>, <<"1","_","2">>}
TypeOrg == <<"o","r","g">>
DescFoo == <<"f","o","o">>
DescBar == <<"b","a","r">>
ClassOrganisation == <<"O","r","g">>
ClassThing == <<"T","h","i","n","g">>
PropKnows == <<"k","n","o","w","s">>
EntityInputs ==
    [id : EntityIds, name : EntityNames, original_type : {<<>>, TypeOrg}]
RelationshipInputs ==
    [source : {NameX, NameQ}, target : {NameX, NameQ},
     original_description : {<<>>, DescFoo, DescBar}]
\* the registries step 3 wrote: only the dbo_uri of an entry is read here
MappedInputs ==
    { [types |-> (TypeOrg :> [dbo_uri |-> DBO(ClassOrganisation)]),
       predicates |-> (DescFoo :> [dbo_uri |-> DBO(PropKnows)])],
      [types |-> EmptyDict, predicates |-> EmptyDict] }
\* the entity lists of the artifact: entity ids are unique in the input
EntityLists ==
    {<<>>} \cup {<<e>> : e \in EntityInputs}
        \cup {es \in [1..2 -> EntityInputs] : es[1].id # es[2].id}
RelationshipLists == UNION {[1..n -> RelationshipInputs] : n \in 0..MaxRels}
\* what MAPPED_DATA may hold when step 4 is run
MappedContents ==
    {[types |-> m.types, predicates |-> m.predicates, entities |-> es,
      relationships |-> rs] :
        m \in MappedInputs, es \in EntityLists, rs \in RelationshipLists}

EntityUri(e) == GRAPHRAG(create_entity_uri(e.name, e.id))

\* type_lookup, pred_lookup: original label -> dbo_uri
UriLookup(registry) == [label \in DOMAIN registry |-> registry[label].dbo_uri]

NoData4 ==
    [types |-> EmptyDict, predicates |-> EmptyDict, entities |-> <<>>,
     relationships |-> <<>>]

\* the locals of step 4 before run() has done anything
Fresh4 ==
    /\ data4 = NoData4
    /\ entities = <<>>
    /\ relationships = <<>>
    /\ graph = {}
    /\ entity_lookup = EmptyDict
    /\ entities_added = 0
    /\ entities_typed = 0
    /\ entities_fallback = 0
    /\ rels_added = 0
    /\ rels_skipped = 0
    /\ rel_log = <<>>
    /\ rdf_written = FALSE
    /\ result4 = "running"

Init4 == Fresh4 /\ pc4 = "start"

Idle4 == Fresh4 /\ pc4 = "idle"

\* if not MAPPED_DATA.exists(): return None; data = json.load(f), and the lookups
\* convert_to_rdf builds first
Load4 ==
    /\ UNCHANGED <<rest4, files, external_calls>>
    /\ pc4 = "start"
    /\ IF ArtifactMissing(files.mapped)
       THEN /\ result4' = "None"
            /\ pc4' = "done"
            /\ data4' = data4
       ELSE IF ~files.mapped.exists
       THEN /\ result4' = "raised"
            /\ pc4' = "done"
            /\ data4' = data4
       ELSE /\ data4' =
                [types |-> UriLookup(files.mapped.content.types),
                 predicates |-> UriLookup(files.mapped.content.predicates),
                 entities |-> files.mapped.content.entities,
                 relationships |-> files.mapped.content.relationships]
            /\ pc4' = "entities"
            /\ result4' = result4
    /\ UNCHANGED <<entities, relationships, graph, entity_lookup, entities_added,
                   entities_typed, entities_fallback, rels_added, rels_skipped, rel_log,
                   rdf_written>>

\* one iteration of the entity loop
AddEntity(entity) ==
    /\ UNCHANGED <<rest4, files, external_calls>>
    /\ pc4 = "entities"
    /\ Len(entities) < Len(data4.entities)
    /\ entity = data4.entities[Len(entities) + 1]
    /\ LET entity_uri == EntityUri(entity)
           orig_type == entity.original_type
           typed == Truthy(orig_type) /\ orig_type \in DOMAIN data4.types
       IN /\ entities' = Append(entities, entity)
          /\ entity_lookup' = StoreInLookup(entity_lookup, entity.name, entity_uri)
          /\ graph' = graph \cup
                { Triple(entity_uri, RDFS_label, Literal(entity.name)),
                  Triple(entity_uri, RDF_type, TypeUriOf(data4.types, orig_type)) }
          /\ entities_typed' = IF typed THEN entities_typed + 1 ELSE entities_typed
          /\ entities_fallback' =
                IF typed THEN entities_fallback ELSE entities_fallback + 1
          /\ entities_added' = entities_added + 1
    /\ UNCHANGED <<data4, relationships, rels_added, rels_skipped, rel_log,
                   rdf_written, result4, pc4>>

\* the entity loop has read the whole list
EndEntities ==
    /\ UNCHANGED <<rest4, files, external_calls>>
    /\ pc4 = "entities"
    /\ Len(entities) = Len(data4.entities)
    /\ pc4' = "relationships"
    /\ UNCHANGED <<data4, entities, relationships, graph, entity_lookup, entities_added,
                   entities_typed, entities_fallback, rels_added, rels_skipped, rel_log,
                   rdf_written, result4>>

\* one iteration of the relationship loop
AddRelationship(rel) ==
    /\ UNCHANGED <<rest4, files, external_calls>>
    /\ pc4 = "relationships"
    /\ Len(relationships) < Len(data4.relationships)
    /\ rel = data4.relationships[Len(relationships) + 1]
    /\ LET source_uri == Get(entity_lookup, rel.source)
           target_uri == Get(entity_lookup, rel.target)
           pred_uri == PredUriOf(data4.predicates, rel.original_description)
       IN /\ relationships' = Append(relationships, rel)
          /\ IF SkipRelationship(source_uri, target_uri)
             THEN /\ rels_skipped' = rels_skipped + 1
                  /\ rel_log' = Append(rel_log, [added |-> FALSE, triple |-> None])
                  /\ UNCHANGED <<graph, rels_added>>
             ELSE /\ graph' = graph \cup {Triple(source_uri, pred_uri, target_uri)}
                  /\ rels_added' = rels_added + 1
                  /\ rel_log' = Append(rel_log,
                        [added |-> TRUE,
                         triple |-> Triple(source_uri, pred_uri, target_uri)])
                  /\ UNCHANGED rels_skipped
    /\ UNCHANGED <<data4, entities, entity_lookup, entities_added, entities_typed,
                   entities_fallback, rdf_written, result4, pc4>>

\* the relationship loop has read the whole list: convert_to_rdf returns the graph,
\* run() serializes it to FINAL_RDF and returns it
Finish4 ==
    /\ UNCHANGED <<rest4, external_calls>>
    /\ pc4 = "relationships"
    /\ Len(relationships) = Len(data4.relationships)
    /\ files' = [files EXCEPT !.final = File(graph)]
    /\ rdf_written' = TRUE
    /\ result4' = "graph"
    /\ pc4' = "done"
    /\ UNCHANGED <<data4, entities, relationships, graph, entity_lookup, entities_added,
                   entities_typed, entities_fallback, rels_added, rels_skipped, rel_log>>

Next4 ==
    \/ Load4
    \/ \E entity \in EntityInputs : AddEntity(entity)
    \/ EndEntities
    \/ \E rel \in RelationshipInputs : AddRelationship(rel)
    \/ Finish4

(***************************************************************************)
(* Step 2: refine types and predicates                                     *)
(***************************************************************************)
BATCH_SIZE == 10

RECURSIVE IntOf(_)
\* int(match.group(1))
IntOf(ds) ==
    IF ds = <<>> THEN 0
    ELSE IntOf(SubSeq(ds, 1, Len(ds) - 1)) * 10 + DigitValue(ds[Len(ds)])

\* the length of the longest prefix of s in which each position i satisfies in[i]:
\* what a greedy \d+, \s* or \w+ consumes
SpanLen(s, in) ==
    CHOOSE n \in 0..Len(s) :
        /\ \A i \in 1..n : in[i]
        /\ (n = Len(s) \/ ~in[n + 1])
DigitSpan(s) == SpanLen(s, [i \in 1..Len(s) |-> IsDigit(s[i])])
SpaceSpan(s) == SpanLen(s, [i \in 1..Len(s) |-> IsSpace(s[i])])
WordSpan(s) == SpanLen(s, [i \in 1..Len(s) |-> IsWord(s[i])])

\* a match that takes the integer of the line as a position counted from 0
MatchLineZeroBased(line) ==
    LET s == Strip(line)
        nd == DigitSpan(s)
        after_dot == SubSeq(s, nd + 2, Len(s))
        ns == SpaceSpan(after_dot)
        rest == SubSeq(after_dot, ns + 1, Len(after_dot))
        nw == WordSpan(rest)
    IN IF nd >= 1 /\ Len(s) > nd /\ s[nd + 1] = "." /\ nw >= 1
       THEN [matched |-> TRUE, idx |-> IntOf(SubSeq(s, 1, nd)),
             token |-> SubSeq(rest, 1, nw)]
       ELSE [matched |-> FALSE]
\* re.match(r'(\d+)\.\s*(\w+)', line.strip()), with idx = int(group(1)) - 1
MatchLine(line) ==
    LET s == Strip(line)
        nd == DigitSpan(s)
        after_dot == SubSeq(s, nd + 2, Len(s))
        ns == SpaceSpan(after_dot)
        rest == SubSeq(after_dot, ns + 1, Len(after_dot))
        nw == WordSpan(rest)
    IN IF nd >= 1 /\ Len(s) > nd /\ s[nd + 1] = "." /\ nw >= 1
       THEN [matched |-> TRUE, idx |-> IntOf(SubSeq(s, 1, nd)) - 1,
             token |-> SubSeq(rest, 1, nw)]
       ELSE [matched |-> FALSE]

\* an HTTP call whose failure is not caught
call_ollama_uncaught(outcome) ==
    IF outcome.kind = "ok"
    THEN [raised |-> FALSE, text |-> Strip(outcome.text)]
    ELSE [raised |-> TRUE, text |-> <<>>]
\* call_ollama: the stripped response text, or "" on any exception
call_ollama(outcome) ==
    IF outcome.kind = "ok"
    THEN [raised |-> FALSE, text |-> Strip(outcome.text)]
    ELSE [raised |-> FALSE, text |-> <<>>]

\* check_llm_available
check_llm_available(probe) == probe = "ok_with_model"

TokThing == <<"T","h","i","n","g">>
TokRelatedTo == <<"r","e","l","a","t","e","d","T","o">>
STOP_WORDS ==
    { <<"t","h","e">>, <<"a">>, <<"a","n">>, <<"i","s">>, <<"a","r","e">>,
      <<"w","a","s">>, <<"w","e","r","e">>, <<"t","o">>, <<"o","f">>, <<"i","n">>,
      <<"o","n">>, <<"a","t">>, <<"f","o","r">>, <<"w","i","t","h">>,
      <<"a","n","d">>, <<"o","r">>, <<"b","u","t">> }

CapitalizeAll(words) == [i \in 1..Len(words) |-> Capitalize(words[i])]
SignificantWord(w) == w \notin STOP_WORDS /\ Len(w) > 2
FirstThree(words) == SubSeq(words, 1, IF Len(words) < 3 THEN Len(words) ELSE 3)

\* heuristic_type
heuristic_type(type_name) ==
    LET result == Concat(CapitalizeAll(Words(type_name)))
    IN IF Truthy(StripNonAlnum(result)) THEN StripNonAlnum(result) ELSE TokThing

\* heuristic_predicate
heuristic_predicate(desc) ==
    LET words == FirstThree(SelectSeq(Words(Lower(desc)), SignificantWord))
    IN IF Truthy(words)
       THEN StripNonAlnum(Head(words) \o Concat(CapitalizeAll(Tail(words))))
       ELSE TokRelatedTo

\* pred[0].lower() + pred[1:] if len(pred) > 1 else pred.lower()
LowerFirst(pred) ==
    IF Len(pred) > 1 THEN <<LowerChar(pred[1])>> \o Tail(pred) ELSE Lower(pred)

RECURSIVE ParseTypeLines(_, _, _)
\* the loop over the lines of the response in refine_types_batch
ParseTypeLines(lines, type_list, refined) ==
    IF lines = <<>> THEN refined
    ELSE LET m == MatchLine(Head(lines))
         IN ParseTypeLines(Tail(lines), type_list,
                IF m.matched /\ 0 <= m.idx /\ m.idx < Len(type_list)
                THEN Put(refined, type_list[m.idx + 1], m.token)
                ELSE refined)

RECURSIVE ParsePredicateLines(_, _, _)
\* the loop over the lines of the response in refine_predicates_batch
ParsePredicateLines(lines, batch_items, refined) ==
    IF lines = <<>> THEN refined
    ELSE LET m == MatchLine(Head(lines))
         IN ParsePredicateLines(Tail(lines), batch_items,
                IF m.matched /\ 0 <= m.idx /\ m.idx < Len(batch_items)
                THEN Put(refined, batch_items[m.idx + 1], LowerFirst(m.token))
                ELSE refined)

\* refine_types_batch, given what call_ollama returned
refine_types_batch(type_list, result) ==
    LET refined == ParseTypeLines(SplitLines(result), type_list, EmptyDict)
    IN [t \in Range(type_list) |->
            IF t \in DOMAIN refined THEN refined[t] ELSE heuristic_type(t)]

\* refine_predicates_batch, given what call_ollama returned
refine_predicates_batch(batch_items, result) ==
    LET refined == ParsePredicateLines(SplitLines(result), batch_items, EmptyDict)
    IN [d \in Range(batch_items) |->
            IF d \in DOMAIN refined THEN refined[d] ELSE heuristic_predicate(d)]

\* pred_mappings.update(batch_results)
Update(d, other) ==
    [k \in DOMAIN d \cup DOMAIN other |-> IF k \in DOMAIN other THEN other[k] ELSE d[k]]

\* {**info, "refined": type_mappings.get(type_name, heuristic_type(type_name))}
RefinedTypes(type_list, mappings) ==
    [t \in Range(type_list) |->
        IF t \in DOMAIN mappings THEN mappings[t] ELSE heuristic_type(t)]
\* {**info, "refined": pred_mappings.get(desc, heuristic_predicate(desc))}
RefinedPredicates(pred_list, mappings) ==
    [d \in Range(pred_list) |->
        IF d \in DOMAIN mappings THEN mappings[d] ELSE heuristic_predicate(d)]

\* the inputs of step 2
MaxRawLabels == 11
\* raw entity types, distinct
TypeLabelPool ==
    << <<"o","r","g">>,
       <<"P","E","R","S","O","N">>,
       <<"g","e","o"," ","l","o","c","a","t","i","o","n">>,
       <<"(","e","v","e","n","t",")">>,
       <<"3","d"," ","m","o","d","e","l">>,
       <<"-","-">>,
       <<"a","/","b">>,
       <<"i","P","h","o","n","e">>,
       <<"x">>,
       <<"t","1","0">>,
       <<"g","a","m","e">>,
       <<"o","r","g"," ","u","n","i","t">>,
       <<"k","_","9">> >>
\* raw relationship descriptions, distinct
PredicateLabelPool ==
    << <<"w","o","r","k","s"," ","f","o","r">>,
       <<"i","s"," ","p","a","r","t"," ","o","f">>,
       <<"t","h","e">>,
       <<"-","-","-">>,
       <<"L","o","c","a","t","e","d"," ","I","n"," ","O","s","l","o">>,
       <<"1","2","3"," ","m","a","i","n"," ","s","t","r","e","e","t">>,
       <<"o","w","n","s">>,
       <<"c","o","-","f","o","u","n","d","e","d"," ","a","c","m","e"," ","c","o","r","p"," ","l","t","d">>,
       <<"t","o"," ","b","e">>,
       <<"h","a","s"," ","m","e","m","b","e","r">>,
       <<"k","n","o","w","s">>,
       <<"f","r","i","e","n","d"," ","o","f"," ","b","o","b">>,
       <<"l","e","a","d","s"," ","t","e","a","m">> >>
\* response texts of the suggestion service
ResponseTexts ==
    << <<"1","."," ","O","r","g","a","n","i","z","a","t","i","o","n">>,
       <<"1","."," ","p","e","r","s","o","n","\n","2","."," ","P","l","a","c","e">>,
       <<"S","u","r","e","!","\n","1",")"," ","O","r","g","\n","2"," ","-"," ","F","o","o">>,
       <<"0","."," ","Z","e","r","o","\n","9","9","."," ","F","a","r">>,
       <<"1","."," ","F","o","o","\n","1","."," ","B","a","r">>,
       <<" "," ","2",".","W","o","r","k","s","F","o","r"," "," ","\n","1","1","."," ","l","a","s","t">>,
       <<"1","."," ","_","x","9">>,
       <<>>,
       <<"1","."," ","\"","O","r","g","\"">>,
       <<"2","."," ","t","w","o"," ","w","o","r","d","s">>,
       <<"1","."," "," ","9","l","i","v","e","s">> >>
Rotations == {0, 5}
\* the first n labels of a pool read from an offset on, wrapping around
LabelList(pool, offset, n) == [i \in 1..n |-> pool[((offset + i - 1) % Len(pool)) + 1]]
ProbeOutcomes == {"exception", "status_not_200", "ok_without_model", "ok_with_model"}
LLMOutcomes ==
    {[kind |-> k, text |-> <<>>] : k \in {"timeout", "connection_error", "http_error"}}
    \cup {[kind |-> "ok", text |-> ResponseTexts[i]] : i \in 1..Len(ResponseTexts)}

\* what EXTRACTED_DATA may hold when step 2 is run; step 2 passes the entities and
\* the relationships on as they are
ExtractedContents ==
    {[types |-> LabelList(TypeLabelPool, offset, nt),
      predicates |-> LabelList(PredicateLabelPool, offset, np),
      entities |-> <<>>, relationships |-> <<>>] :
        offset \in Rotations, nt \in 0..MaxRawLabels, np \in 0..MaxRawLabels}

NoData2 == [types |-> <<>>, predicates |-> <<>>, entities |-> <<>>, relationships |-> <<>>]

\* the locals of step 2 before run() has done anything
Fresh2 ==
    /\ data2 = NoData2
    /\ use_llm = FALSE
    /\ type_mappings = EmptyDict
    /\ pred_mappings = EmptyDict
    /\ refined_types = EmptyDict
    /\ refined_predicates = EmptyDict
    /\ batch_start = 0
    /\ llm_calls = <<>>
    /\ refined_written = FALSE
    /\ result2 = "running"

Init2 == Fresh2 /\ pc2 = "start"

Idle2 == Fresh2 /\ pc2 = "idle"

\* a registry as json.dump writes it: the raw labels in their order, each with its
\* refined token
Registry(labels, refined) ==
    [i \in 1..Len(labels) |-> <<labels[i], [refined |-> refined[labels[i]]]>>]

\* if not EXTRACTED_DATA.exists(): return None; data = json.load(f)
Load2 ==
    /\ UNCHANGED <<rest2, files, external_calls>>
    /\ pc2 = "start"
    /\ IF ArtifactMissing(files.extracted)
       THEN /\ result2' = "None"
            /\ pc2' = "done"
            /\ data2' = data2
       ELSE IF ~files.extracted.exists
       THEN /\ result2' = "raised"
            /\ pc2' = "done"
            /\ data2' = data2
       ELSE /\ data2' = files.extracted.content
            /\ pc2' = "probe"
            /\ result2' = result2
    /\ UNCHANGED <<use_llm, type_mappings, pred_mappings, refined_types,
                   refined_predicates, batch_start, llm_calls, refined_written>>

\* the record of one call of call_ollama: the labels listed in the prompt and the
\* text the call returned
Call(category, batch, outcome) ==
    [category |-> category, batch |-> batch, size |-> Len(batch),
     failed |-> outcome.kind # "ok", text |-> call_ollama(outcome).text]

\* llm_available = check_llm_available()
ProbeLLM(probe) ==
    /\ UNCHANGED <<rest2, files>>
    /\ external_calls' = external_calls + 1
    /\ pc2 = "probe"
    /\ use_llm' = check_llm_available(probe)
    /\ pc2' = "types"
    /\ UNCHANGED <<data2, type_mappings, pred_mappings, refined_types,
                   refined_predicates, batch_start, llm_calls, refined_written, result2>>

\* the section REFINE TYPES, with the service
RefineTypesLLM(outcome) ==
    /\ UNCHANGED <<rest2, files>>
    /\ external_calls' = external_calls + 1
    /\ pc2 = "types"
    /\ use_llm
    /\ llm_calls' = Append(llm_calls, Call("types", data2.types, outcome))
    /\ LET r == call_ollama(outcome)
       IN IF r.raised
          THEN /\ result2' = "raised"
               /\ pc2' = "done"
               /\ UNCHANGED <<type_mappings, refined_types>>
          ELSE /\ type_mappings' = refine_types_batch(data2.types, r.text)
               /\ refined_types' = RefinedTypes(data2.types, type_mappings')
               /\ pc2' = IF Len(data2.predicates) = 0 THEN "save" ELSE "predicates"
               /\ result2' = result2
    /\ UNCHANGED <<data2, use_llm, pred_mappings, refined_predicates, batch_start,
                   refined_written>>

\* the section REFINE TYPES, without the service
RefineTypesHeuristic ==
    /\ UNCHANGED <<rest2, files, external_calls>>
    /\ pc2 = "types"
    /\ ~use_llm
    /\ type_mappings' = [t \in Range(data2.types) |-> heuristic_type(t)]
    /\ refined_types' = RefinedTypes(data2.types, type_mappings')
    /\ pc2' = "predicates"
    /\ UNCHANGED <<data2, use_llm, pred_mappings, refined_predicates, batch_start,
                   llm_calls, refined_written, result2>>

\* one iteration of the loop over the predicate batches
RefinePredicatesBatch(outcome) ==
    /\ UNCHANGED <<rest2, files>>
    /\ external_calls' = external_calls + 1
    /\ pc2 = "predicates"
    /\ use_llm
    /\ LET last == IF batch_start + BATCH_SIZE < Len(data2.predicates)
                   THEN batch_start + BATCH_SIZE ELSE Len(data2.predicates)
           batch == SubSeq(data2.predicates, batch_start + 1, last)
           r == call_ollama(outcome)
       IN /\ llm_calls' = Append(llm_calls, Call("predicates", batch, outcome))
          /\ IF r.raised
             THEN /\ result2' = "raised"
                  /\ pc2' = "done"
                  /\ UNCHANGED <<pred_mappings, batch_start>>
             ELSE /\ pred_mappings' =
                        Update(pred_mappings, refine_predicates_batch(batch, r.text))
                  /\ batch_start' = batch_start + BATCH_SIZE
                  /\ pc2' = IF batch_start + BATCH_SIZE < Len(data2.predicates)
                            THEN "predicates" ELSE "save"
                  /\ result2' = result2
    /\ UNCHANGED <<data2, use_llm, type_mappings, refined_types, refined_predicates,
                   refined_written>>

\* the loop over pred_items without the service
RefinePredicatesHeuristic ==
    /\ UNCHANGED <<rest2, files, external_calls>>
    /\ pc2 = "predicates"
    /\ ~use_llm
    /\ pred_mappings' = [d \in Range(data2.predicates) |-> heuristic_predicate(d)]
    /\ pc2' = "save"
    /\ UNCHANGED <<data2, use_llm, type_mappings, refined_types, refined_predicates,
                   batch_start, llm_calls, refined_written, result2>>

\* refined_predicates, json.dump(refined, REFINED_DATA), return refined
Save2 ==
    /\ UNCHANGED <<rest2, external_calls>>
    /\ pc2 = "save"
    /\ refined_predicates' = RefinedPredicates(data2.predicates, pred_mappings)
    /\ files' = [files EXCEPT !.refined =
                    File([types |-> Registry(data2.types, refined_types),
                          predicates |-> Registry(data2.predicates, refined_predicates'),
                          entities |-> data2.entities,
                          relationships |-> data2.relationships])]
    /\ refined_written' = TRUE
    /\ result2' = "refined"
    /\ pc2' = "done"
    /\ UNCHANGED <<data2, use_llm, type_mappings, pred_mappings, refined_types,
                   batch_start, llm_calls>>

Next2 ==
    \/ Load2
    \/ \E probe \in ProbeOutcomes : ProbeLLM(probe)
    \/ \E outcome \in LLMOutcomes : RefineTypesLLM(outcome)
    \/ RefineTypesHeuristic
    \/ \E outcome \in LLMOutcomes : RefinePredicatesBatch(outcome)
    \/ RefinePredicatesHeuristic
    \/ Save2

(***************************************************************************)
(* Step 3: map to the DBpedia ontology                                     *)
(***************************************************************************)
\* A dict that is iterated is a sequence of <<key, value>> pairs in insertion order.
Keys(d) == [i \in 1..Len(d) |-> d[i][1]]
Values(d) == [i \in 1..Len(d) |-> d[i][2]]

\* An embedding is a vector of three components in thousandths; a similarity is their
\* dot product, in millionths.
Dot(a, b) == a[1] * b[1] + a[2] * b[2] + a[3] * b[3]
\* round(score, 3), in thousandths (no score of the model lies half-way)
Round3(score) == (score + 500) \div 1000

\* texts of the reference ontology and refined tokens
DescPerson == <<"p","e","r","s","o","n">>
DescOrganisation == <<"o","r","g","a","n","i","s","a","t","i","o","n">>
DescKnows == <<"k","n","o","w","s">>
DescLocation == <<"l","o","c","a","t","i","o","n">>
DescEmployer == <<"e","m","p","l","o","y","e","r">>
ClassPerson == <<"P","e","r","s","o","n">>
PropLocation == <<"l","o","c","a","t","i","o","n">>
PropEmployer == <<"e","m","p","l","o","y","e","r">>
TokFirm == <<"F","i","r","m">>
TokBoth == <<"B","o","t","h">>
TokHuman == <<"H","u","m","a","n">>
TokNear == <<"N","e","a","r">>
Tokens == {TokFirm, TokBoth, TokHuman, TokNear}

\* self.model.encode(text, normalize_embeddings=True): a deterministic embedding
\* model, given by its table on the texts of the model
Encode(text) ==
    CASE text = DescPerson -> <<1000, 0, 0>>
      [] text = DescOrganisation -> <<0, 1000, 0>>
      [] text = DescKnows -> <<1000, 0, 0>>
      [] text = DescLocation -> <<0, 1000, 0>>
      [] text = DescEmployer -> <<800, 600, 0>>
      [] text = TokFirm -> <<600, 800, 0>>
      [] text = TokBoth -> <<707, 707, 0>>
      [] text = TokHuman -> <<600, -800, 0>>
      [] text = TokNear -> <<449, 401, 798>>
      [] OTHER -> <<0, 0, 0>>

\* what the SPARQL endpoint serves; a failed query gives the empty dict
ClassTerms == << <<ClassPerson, DescPerson>>, <<ClassOrganisation, DescOrganisation>> >>
PropertyTerms ==
    << <<PropKnows, DescKnows>>, <<PropLocation, DescLocation>>,
       <<PropEmployer, DescEmployer>> >>
FetchResults(key) == {<<>>, IF key = "classes" THEN ClassTerms ELSE PropertyTerms}

\* load_or_fetch: the data returned and the cache file afterwards
load_or_fetch(cache_file, fetched) ==
    IF cache_file.exists
    THEN [data |-> cache_file.content, cache |-> cache_file]
    ELSE [data |-> fetched,
          cache |-> IF Truthy(fetched) THEN File(fetched) ELSE cache_file]

\* a test that looks at the classes alone
OntologyMissingClassesOnly(classes, props) == ~Truthy(classes)
\* if not dbo_classes or not dbo_props
OntologyMissing(classes, props) == ~Truthy(classes) \/ ~Truthy(props)

\* a test that finds every key missing
MissingFromCacheAlways(embeddings, key) == TRUE
\* if key not in self._embeddings
MissingFromCache(embeddings, key) == key \notin DOMAIN embeddings

\* EmbeddingMapper._get_embeddings: the cache after the call
get_embeddings(embeddings, texts, key) ==
    IF MissingFromCache(embeddings, key)
    THEN [k \in DOMAIN embeddings \cup {key} |->
            IF k = key THEN [i \in 1..Len(texts) |-> Encode(texts[i])]
            ELSE embeddings[k]]
    ELSE embeddings

\* the last index of the largest value
ArgMaxLast(xs) ==
    CHOOSE i \in 1..Len(xs) :
        /\ \A j \in 1..Len(xs) : xs[j] <= xs[i]
        /\ \A j \in 1..Len(xs) : j > i => xs[j] < xs[i]
\* np.argmax: the first index of the largest value
ArgMax(xs) ==
    CHOOSE i \in 1..Len(xs) :
        /\ \A j \in 1..Len(xs) : xs[j] <= xs[i]
        /\ \A j \in 1..(i - 1) : xs[j] < xs[i]

\* EmbeddingMapper.find_best_match; np.argmax raises on an empty array
find_best_match(embeddings, query, candidates, cache_key) ==
    LET names == Keys(candidates)
        descriptions == Values(candidates)
        cached == get_embeddings(embeddings, descriptions, cache_key)
        cand_emb == cached[cache_key]
        query_emb == Encode(query)
        similarities == [i \in 1..Len(cand_emb) |-> Dot(cand_emb[i], query_emb)]
        encoded == IF MissingFromCache(embeddings, cache_key)
                   THEN {cache_key, "query"} ELSE {"query"}
    IN IF Len(cand_emb) = 0
       THEN [raised |-> TRUE, embeddings |-> cached, encoded |-> encoded]
       ELSE [raised |-> FALSE, embeddings |-> cached, encoded |-> encoded,
             name |-> names[ArgMax(similarities)],
             score |-> similarities[ArgMax(similarities)]]

FALLBACK_PREDICATE == <<"w","i","k","i","P","a","g","e","W","i","k","i","L","i","n","k">>

\* an acceptance test that rejects a score equal to the threshold
AcceptsStrictly(score, threshold) == score > threshold
\* score >= TYPE_SIMILARITY_THRESHOLD, score >= PREDICATE_SIMILARITY_THRESHOLD
Accepts(score, threshold) == score >= threshold

\* the registry entry map_to_dbo writes for a type
TypeEntry(refined, best_class, score, threshold) ==
    IF Accepts(score, threshold)
    THEN [refined |-> refined, dbo_class |-> best_class, dbo_uri |-> DBO(best_class),
          similarity |-> Round3(score)]
    ELSE [refined |-> refined, dbo_class |-> ClassThing, dbo_uri |-> DBO(ClassThing),
          similarity |-> Round3(score), fallback |-> TRUE, best_match |-> best_class]

\* the registry entry map_to_dbo writes for a predicate
PredicateEntry(refined, best_prop, score, threshold) ==
    IF Accepts(score, threshold)
    THEN [refined |-> refined, dbo_property |-> best_prop, dbo_uri |-> DBO(best_prop),
          similarity |-> Round3(score)]
    ELSE [refined |-> refined, dbo_property |-> FALLBACK_PREDICATE,
          dbo_uri |-> DBO(FALLBACK_PREDICATE), similarity |-> Round3(score),
          fallback |-> TRUE, best_match |-> best_prop]

\* the inputs of step 3
MaxLabels == 2
LabelOne == <<"o","n","e">>
LabelTwo == <<"t","w","o">>
LabelThree == <<"t","h","r","e","e">>
LabelFour == <<"f","o","u","r">>
RawLabels == <<LabelOne, LabelTwo, LabelThree, LabelFour>>
\* a registry of the refined artifact: the first n raw labels, each with a token
RefinedRegistries ==
    UNION { { [i \in 1..n |-> <<RawLabels[i], [refined |-> toks[i]]>>] :
                toks \in [1..n -> Tokens] } : n \in 0..MaxLabels }
ThresholdChoices == {600000, 800000}
\* a cache file holds a term set that was fetched: load_or_fetch writes no empty one
CacheChoices(key) == {AbsentFile} \cup {File(c) : c \in FetchResults(key) \ {<<>>}}

NoMatch == [key |-> "none"]
\* no call of model.encode yet: for the candidate texts of either key, for a query
NoEncodeCalls == [k \in {"classes", "properties", "query"} |-> 0]
\* the history after a find_best_match that made the calls in `encoded`
CountEncodes(calls, encoded) ==
    [k \in DOMAIN calls |-> IF k \in encoded THEN calls[k] + 1 ELSE calls[k]]

\* what REFINED_DATA may hold when step 3 is run; step 3 passes the entities and the
\* relationships on as they are
RefinedContents ==
    {[types |-> ts, predicates |-> ps, entities |-> <<>>, relationships |-> <<>>] :
        ts \in RefinedRegistries, ps \in RefinedRegistries}

NoData3 == [types |-> <<>>, predicates |-> <<>>, entities |-> <<>>, relationships |-> <<>>]

\* the locals of step 3 before run() has done anything
Fresh3 ==
    /\ data3 = NoData3
    /\ dbo_classes = <<>>
    /\ dbo_props = <<>>
    /\ mapper_model = FALSE
    /\ mapper_embeddings = EmptyDict
    /\ encode_calls = NoEncodeCalls
    /\ mapped_types = EmptyDict
    /\ mapped_predicates = EmptyDict
    /\ type_mapped = 0
    /\ type_fallback = 0
    /\ pred_mapped = 0
    /\ pred_fallback = 0
    /\ last_match = NoMatch
    /\ mapped_written = FALSE
    /\ result3 = "running"

Init3 ==
    /\ config3 \in {c \in [TYPE_SIMILARITY_THRESHOLD : ThresholdChoices,
                             PREDICATE_SIMILARITY_THRESHOLD : ThresholdChoices] :
                        c.TYPE_SIMILARITY_THRESHOLD # c.PREDICATE_SIMILARITY_THRESHOLD}
    /\ cache_files \in [classes : CacheChoices("classes"),
                        properties : CacheChoices("properties")]
    /\ Fresh3
    /\ pc3 = "start"

Idle3 ==
    /\ config3 = [TYPE_SIMILARITY_THRESHOLD |-> 0, PREDICATE_SIMILARITY_THRESHOLD |-> 0]
    /\ cache_files = [classes |-> AbsentFile, properties |-> AbsentFile]
    /\ Fresh3
    /\ pc3 = "idle"

\* if not REFINED_DATA.exists(): return None; data = json.load(f)
Load3 ==
    /\ UNCHANGED <<rest3, files, external_calls>>
    /\ pc3 = "start"
    /\ IF ArtifactMissing(files.refined)
       THEN /\ result3' = "None"
            /\ pc3' = "done"
            /\ data3' = data3
       ELSE IF ~files.refined.exists
       THEN /\ result3' = "raised"
            /\ pc3' = "done"
            /\ data3' = data3
       ELSE /\ data3' = files.refined.content
            /\ pc3' = "load_classes"
            /\ result3' = result3
    /\ UNCHANGED <<config3, cache_files, dbo_classes, dbo_props, mapper_model,
                   mapper_embeddings, encode_calls, mapped_types, mapped_predicates,
                   type_mapped, type_fallback, pred_mapped, pred_fallback, last_match,
                   mapped_written>>

\* where map_to_dbo stands once nt types and np predicates are mapped
LoopPc3(nt, np) ==
    IF nt < Len(data3.types) THEN "map_types"
    ELSE IF np < Len(data3.predicates) THEN "map_predicates"
    ELSE "save"

\* dbo_classes = load_or_fetch(DBO_CLASSES_CACHE, fetch_dbo_classes)
LoadClasses(fetched) ==
    /\ UNCHANGED <<rest3, files>>
    /\ external_calls' =
            IF cache_files.classes.exists THEN external_calls ELSE external_calls + 1
    /\ pc3 = "load_classes"
    /\ LET r == load_or_fetch(cache_files.classes, fetched)
       IN /\ dbo_classes' = r.data
          /\ cache_files' = [cache_files EXCEPT !.classes = r.cache]
    /\ pc3' = "load_props"
    /\ UNCHANGED <<config3, data3, dbo_props, mapper_model, mapper_embeddings,
                   encode_calls,
                   mapped_types, mapped_predicates, type_mapped, type_fallback,
                   pred_mapped, pred_fallback, last_match, mapped_written, result3>>

\* dbo_props = load_or_fetch(DBO_PROPERTIES_CACHE, fetch_dbo_properties)
LoadProps(fetched) ==
    /\ UNCHANGED <<rest3, files>>
    /\ external_calls' =
            IF cache_files.properties.exists THEN external_calls ELSE external_calls + 1
    /\ pc3 = "load_props"
    /\ LET r == load_or_fetch(cache_files.properties, fetched)
       IN /\ dbo_props' = r.data
          /\ cache_files' = [cache_files EXCEPT !.properties = r.cache]
    /\ pc3' = "check"
    /\ UNCHANGED <<config3, data3, dbo_classes, mapper_model, mapper_embeddings,
                   encode_calls,
                   mapped_types, mapped_predicates, type_mapped, type_fallback,
                   pred_mapped, pred_fallback, last_match, mapped_written, result3>>

\* the test of the loaded ontology; on success map_to_dbo starts with a new mapper
CheckOntology ==
    /\ UNCHANGED <<rest3, files, external_calls>>
    /\ pc3 = "check"
    /\ IF OntologyMissing(dbo_classes, dbo_props)
       THEN /\ result3' = "None"
            /\ pc3' = "done"
       ELSE /\ result3' = result3
            /\ pc3' = LoopPc3(0, 0)
    /\ UNCHANGED <<config3, data3, cache_files, dbo_classes, dbo_props, mapper_model,
                   mapper_embeddings, encode_calls, mapped_types, mapped_predicates,
                   type_mapped,
                   type_fallback, pred_mapped, pred_fallback, last_match,
                   mapped_written>>

\* one iteration of the loop over data["types"]
MapType ==
    /\ UNCHANGED <<rest3, files>>
    /\ pc3 = "map_types"
    /\ LET item == data3.types[type_mapped + type_fallback + 1]
           orig_type == item[1]
           refined == item[2].refined
           m == find_best_match(mapper_embeddings, refined, dbo_classes, "classes")
       IN /\ mapper_model' = TRUE
          /\ mapper_embeddings' = m.embeddings
          /\ encode_calls' = CountEncodes(encode_calls, m.encoded)
          /\ external_calls' = external_calls + Cardinality(m.encoded)
          /\ IF m.raised
             THEN /\ result3' = "raised"
                  /\ pc3' = "done"
                  /\ last_match' = [key |-> "classes", query |-> refined, raised |-> TRUE]
                  /\ UNCHANGED <<mapped_types, type_mapped, type_fallback>>
             ELSE /\ mapped_types' = Put(mapped_types, orig_type,
                        TypeEntry(refined, m.name, m.score,
                                  config3.TYPE_SIMILARITY_THRESHOLD))
                  /\ type_mapped' =
                        IF Accepts(m.score, config3.TYPE_SIMILARITY_THRESHOLD)
                        THEN type_mapped + 1 ELSE type_mapped
                  /\ type_fallback' =
                        IF Accepts(m.score, config3.TYPE_SIMILARITY_THRESHOLD)
                        THEN type_fallback ELSE type_fallback + 1
                  /\ last_match' = [key |-> "classes", query |-> refined,
                                    raised |-> FALSE, name |-> m.name, score |-> m.score]
                  /\ pc3' = LoopPc3(type_mapped + type_fallback + 1, 0)
                  /\ result3' = result3
    /\ UNCHANGED <<config3, data3, cache_files, dbo_classes, dbo_props,
                   mapped_predicates, pred_mapped, pred_fallback, mapped_written>>

\* one iteration of the loop over data["predicates"]
MapPredicate ==
    /\ UNCHANGED <<rest3, files>>
    /\ pc3 = "map_predicates"
    /\ LET item == data3.predicates[pred_mapped + pred_fallback + 1]
           orig_desc == item[1]
           refined == item[2].refined
           m == find_best_match(mapper_embeddings, refined, dbo_props, "properties")
       IN /\ mapper_model' = TRUE
          /\ mapper_embeddings' = m.embeddings
          /\ encode_calls' = CountEncodes(encode_calls, m.encoded)
          /\ external_calls' = external_calls + Cardinality(m.encoded)
          /\ IF m.raised
             THEN /\ result3' = "raised"
                  /\ pc3' = "done"
                  /\ last_match' =
                        [key |-> "properties", query |-> refined, raised |-> TRUE]
                  /\ UNCHANGED <<mapped_predicates, pred_mapped, pred_fallback>>
             ELSE /\ mapped_predicates' = Put(mapped_predicates, orig_desc,
                        PredicateEntry(refined, m.name, m.score,
                                       config3.PREDICATE_SIMILARITY_THRESHOLD))
                  /\ pred_mapped' =
                        IF Accepts(m.score, config3.PREDICATE_SIMILARITY_THRESHOLD)
                        THEN pred_mapped + 1 ELSE pred_mapped
                  /\ pred_fallback' =
                        IF Accepts(m.score, config3.PREDICATE_SIMILARITY_THRESHOLD)
                        THEN pred_fallback ELSE pred_fallback + 1
                  /\ last_match' = [key |-> "properties", query |-> refined,
                                    raised |-> FALSE, name |-> m.name, score |-> m.score]
                  /\ pc3' = LoopPc3(Len(data3.types), pred_mapped + pred_fallback + 1)
                  /\ result3' = result3
    /\ UNCHANGED <<config3, data3, cache_files, dbo_classes, dbo_props, mapped_types,
                   type_mapped, type_fallback, mapped_written>>

\* json.dump(mapped, MAPPED_DATA); return mapped
Save3 ==
    /\ UNCHANGED <<rest3, external_calls>>
    /\ pc3 = "save"
    /\ files' = [files EXCEPT !.mapped =
                    File([types |-> mapped_types, predicates |-> mapped_predicates,
                          entities |-> data3.entities,
                          relationships |-> data3.relationships])]
    /\ mapped_written' = TRUE
    /\ result3' = "mapped"
    /\ pc3' = "done"
    /\ UNCHANGED <<config3, data3, cache_files, dbo_classes, dbo_props, mapper_model,
                   mapper_embeddings, encode_calls, mapped_types, mapped_predicates,
                   type_mapped,
                   type_fallback, pred_mapped, pred_fallback, last_match>>

Next3 ==
    \/ Load3
    \/ \E fetched \in FetchResults("classes") : LoadClasses(fetched)
    \/ \E fetched \in FetchResults("properties") : LoadProps(fetched)
    \/ CheckOntology
    \/ MapType
    \/ MapPredicate
    \/ Save3

(***************************************************************************)
(* Step 1: extract from the parquet files                                  *)
(***************************************************************************)
\* the keys of a dict filled in the order of the rows: the non-empty values of a
\* column, each at its first appearance
FirstSeen(xs) ==
    LET firsts == SelectSeq([i \in 1..Len(xs) |-> i],
                    LAMBDA i : Truthy(xs[i]) /\ \A j \in 1..(i - 1) : xs[j] # xs[i])
    IN [k \in 1..Len(firsts) |-> xs[firsts[k]]]

\* extract_types_and_predicates, on rows whose strings are clean already
extract_types_and_predicates(rows) ==
    [types |->
        FirstSeen([i \in 1..Len(rows.entities) |-> rows.entities[i].original_type]),
     predicates |->
        FirstSeen([i \in 1..Len(rows.relationships) |->
                        rows.relationships[i].original_description]),
     entities |-> rows.entities,
     relationships |-> rows.relationships]

Fresh1 ==
    /\ extracted_written = FALSE
    /\ result1 = "running"

Idle1 == Fresh1 /\ pc1 = "idle"

\* run() of step 1: return None without the parquet files, else extract, write
\* EXTRACTED_DATA and return the data; pd.read_parquet raises on a file it cannot read
Extract1(read) ==
    /\ UNCHANGED <<rest1, external_calls>>
    /\ pc1 = "start"
    /\ pc1' = "done"
    /\ IF ~files.parquet.exists
       THEN /\ result1' = "None"
            /\ UNCHANGED <<files, extracted_written>>
       ELSE IF read = "error"
       THEN /\ result1' = "raised"
            /\ UNCHANGED <<files, extracted_written>>
       ELSE /\ files' = [files EXCEPT !.extracted =
                            File(extract_types_and_predicates(files.parquet.content))]
            /\ extracted_written' = TRUE
            /\ result1' = "data"

Next1 == \E read \in {"ok", "error"} : Extract1(read)

(***************************************************************************)
(* run_pipeline: main and run_steps                                        *)
(***************************************************************************)
\* the range run_steps is called with
FromStep(a) == IF a.step # 0 THEN a.step ELSE IF a.from_step # 0 THEN a.from_step ELSE 1
ToStep(a) == IF a.step # 0 THEN a.step ELSE 4
\* if from_step <= num <= to_step
Selected(num) == FromStep(args) <= num /\ num <= ToStep(args)

\* a test that takes no result for a failure
StageFailedNever(result) == FALSE
\* if result is None
StageFailed(result) == result = "None"

IdleR ==
    /\ args = [step |-> 0, from_step |-> 0]
    /\ env = "none"
    /\ stage = 0
    /\ pcr = "idle"
    /\ run_log = <<>>
    /\ validated = FALSE
    /\ exit_status = -1

\* a return discards the locals of run()
Reset1 ==
    /\ extracted_written' = FALSE
    /\ result1' = "running"
Reset2 ==
    /\ data2' = NoData2
    /\ use_llm' = FALSE
    /\ type_mappings' = EmptyDict
    /\ pred_mappings' = EmptyDict
    /\ refined_types' = EmptyDict
    /\ refined_predicates' = EmptyDict
    /\ batch_start' = 0
    /\ llm_calls' = <<>>
    /\ refined_written' = FALSE
    /\ result2' = "running"
Reset3 ==
    /\ data3' = NoData3
    /\ dbo_classes' = <<>>
    /\ dbo_props' = <<>>
    /\ mapper_model' = FALSE
    /\ mapper_embeddings' = EmptyDict
    /\ encode_calls' = NoEncodeCalls
    /\ mapped_types' = EmptyDict
    /\ mapped_predicates' = EmptyDict
    /\ type_mapped' = 0
    /\ type_fallback' = 0
    /\ pred_mapped' = 0
    /\ pred_fallback' = 0
    /\ last_match' = NoMatch
    /\ mapped_written' = FALSE
    /\ result3' = "running"
Reset4 ==
    /\ data4' = NoData4
    /\ entities' = <<>>
    /\ relationships' = <<>>
    /\ graph' = {}
    /\ entity_lookup' = EmptyDict
    /\ entities_added' = 0
    /\ entities_typed' = 0
    /\ entities_fallback' = 0
    /\ rels_added' = 0
    /\ rels_skipped' = 0
    /\ rel_log' = <<>>
    /\ rdf_written' = FALSE
    /\ result4' = "running"

\* main up to the call of run_steps: outside IDUN it returns 1 when the artifacts
\* directory or a parquet file in it is not found
Main ==
    /\ pcr = "main"
    /\ IF env = "local_missing"
       THEN /\ exit_status' = 1
            /\ pcr' = "exit"
            /\ stage' = stage
       ELSE /\ stage' = 1
            /\ pcr' = "loop"
            /\ exit_status' = exit_status
    /\ UNCHANGED <<args, env, run_log, validated, files, external_calls,
                   vars1, vars2, vars3, vars4>>

\* an entry of STEPS outside the range
SkipStage ==
    /\ pcr = "loop"
    /\ stage \in 1..4
    /\ ~Selected(stage)
    /\ stage' = stage + 1
    /\ UNCHANGED <<args, env, pcr, run_log, validated, exit_status, files,
                   external_calls, vars1, vars2, vars3, vars4>>

\* result = func(): run() of the step starts
CallStage ==
    /\ pcr = "loop"
    /\ stage \in 1..4
    /\ Selected(stage)
    /\ pcr' = "call"
    /\ run_log' = Append(run_log, [stage |-> stage, result |-> "running",
                                   persisted |-> FALSE, files |-> files])
    /\ external_calls' = 0
    /\ pc1' = IF stage = 1 THEN "start" ELSE pc1
    /\ pc2' = IF stage = 2 THEN "start" ELSE pc2
    /\ pc3' = IF stage = 3 THEN "start" ELSE pc3
    /\ pc4' = IF stage = 4 THEN "start" ELSE pc4
    /\ UNCHANGED <<args, env, stage, validated, exit_status, files, locals1, locals2,
                   config3, cache_files, locals3, locals4>>

\* run_steps once func() has returned `result` (or raised), having written its
\* artifact or not
Returned(result, written) ==
    /\ run_log' = [run_log EXCEPT ![Len(run_log)] =
                        [@ EXCEPT !.result = result, !.persisted = written]]
    /\ IF StageFailed(result) \/ result = "raised"
       THEN /\ exit_status' = 1
            /\ pcr' = "exit"
            /\ stage' = stage
       ELSE /\ stage' = stage + 1
            /\ pcr' = "loop"
            /\ exit_status' = exit_status
    /\ UNCHANGED <<args, env, validated, files, external_calls, config3, cache_files>>

\* func() returns: on None run_steps returns False and main returns 1; an exception
\* leaves main and the interpreter exits with status 1; otherwise the loop goes on
ReturnStage ==
    /\ pcr = "call"
    /\ \/ /\ stage = 1 /\ pc1 = "done"
          /\ Returned(result1, extracted_written)
          /\ Reset1 /\ pc1' = "idle"
          /\ UNCHANGED <<locals2, pc2, locals3, pc3, locals4, pc4>>
       \/ /\ stage = 2 /\ pc2 = "done"
          /\ Returned(result2, refined_written)
          /\ Reset2 /\ pc2' = "idle"
          /\ UNCHANGED <<locals1, pc1, locals3, pc3, locals4, pc4>>
       \/ /\ stage = 3 /\ pc3 = "done"
          /\ Returned(result3, mapped_written)
          /\ Reset3 /\ pc3' = "idle"
          /\ UNCHANGED <<locals1, pc1, locals2, pc2, locals4, pc4>>
       \/ /\ stage = 4 /\ pc4 = "done"
          /\ Returned(result4, rdf_written)
          /\ Reset4 /\ pc4' = "idle"
          /\ UNCHANGED <<locals1, pc1, locals2, pc2, locals3, pc3>>

\* the loop is through: validate() if step 4 was in the range, return True, and main
\* returns 0
Finish ==
    /\ pcr = "loop"
    /\ stage = 5
    /\ validated' = (ToStep(args) >= 4)
    /\ exit_status' = 0
    /\ pcr' = "exit"
    /\ UNCHANGED <<args, env, stage, run_log, files, external_calls,
                   vars1, vars2, vars3, vars4>>

\* the parquet rows, and the artifacts earlier runs may have left
PipelineRows ==
    [entities |-> << [id |-> <<"2">>, name |-> NameX, original_type |-> TypeOrg] >>,
     relationships |->
        << [source |-> NameX, target |-> NameX, original_description |-> DescFoo] >>]
LeftExtracted == extract_types_and_predicates(PipelineRows)
LeftRefined ==
    [types |-> << <<TypeOrg, [refined |-> TokFirm]>> >>,
     predicates |-> << <<DescFoo, [refined |-> TokHuman]>> >>,
     entities |-> PipelineRows.entities,
     relationships |-> PipelineRows.relationships]
LeftMapped ==
    [types |-> (TypeOrg :> [dbo_uri |-> DBO(ClassOrganisation)]),
     predicates |-> (DescFoo :> [dbo_uri |-> DBO(PropKnows)]),
     entities |-> PipelineRows.entities,
     relationships |-> PipelineRows.relationships]

InitPipeline ==
    /\ args \in [step : 0..4, from_step : 0..4]
    /\ env \in {"idun", "local_found", "local_missing"}
    /\ stage = 0
    /\ pcr = "main"
    /\ run_log = <<>>
    /\ validated = FALSE
    /\ exit_status = -1
    /\ files \in [parquet : {AbsentFile, File(PipelineRows)},
                  extracted : {AbsentFile, File(LeftExtracted)},
                  refined : {AbsentFile, File(LeftRefined)},
                  mapped : {AbsentFile, File(LeftMapped)},
                  final : {AbsentFile}]
    /\ external_calls = 0
    /\ config3 = [TYPE_SIMILARITY_THRESHOLD |-> 600000,
                  PREDICATE_SIMILARITY_THRESHOLD |-> 800000]
    /\ cache_files \in {[classes |-> AbsentFile, properties |-> AbsentFile],
                        [classes |-> File(ClassTerms), properties |-> File(PropertyTerms)]}
    /\ Idle1 /\ Idle2 /\ Fresh3 /\ pc3 = "idle" /\ Idle4

NextPipeline ==
    \/ Main
    \/ SkipStage
    \/ CallStage
    \/ ReturnStage
    \/ Finish
    \/ Next1
    \/ Next2
    \/ Next3
    \/ Next4

(***************************************************************************)
(* Step 2: properties                                                      *)
(***************************************************************************)
CallsOf(category) == SelectSeq(llm_calls, LAMBDA c : c.category = category)
\* the number of batches of at most BATCH_SIZE that n items make
Batches(n) == (n + BATCH_SIZE - 1) \div BATCH_SIZE

\* C1: whatever the suggestion service does, step 2 run on an extracted artifact does
\* not fail: no exception leaves run(), it returns the refined data, the batches
\* after a failed call are still sent, and the output maps every raw type and every
\* raw predicate description to one token.
C1_ServiceFailureTolerated ==
    /\ result2 # "raised"
    /\ (pc2 = "done" /\ files.extracted.exists) =>
        /\ result2 = "refined"
        /\ refined_written
        /\ DOMAIN refined_types = Range(data2.types)
        /\ DOMAIN refined_predicates = Range(data2.predicates)
        /\ use_llm =>
            /\ Len(CallsOf("types")) = 1
            /\ Len(CallsOf("predicates")) = Batches(Len(data2.predicates))
\* run() returned the refined data after the call for the types and the call for the
\* first predicate batch failed, and the second batch got a token from the service
C1_Witness ==
    /\ pc2 = "done"
    /\ result2 = "refined"
    /\ Len(llm_calls) = 3
    /\ llm_calls[1].failed
    /\ llm_calls[2].failed
    /\ ~llm_calls[3].failed
    /\ Len(data2.predicates) = BATCH_SIZE + 1
    /\ refined_predicates[data2.predicates[BATCH_SIZE + 1]]
            # heuristic_predicate(data2.predicates[BATCH_SIZE + 1])

\* C10: every token of the output follows the case convention of its category: a type
\* token begins with an uppercase letter, a predicate token with a lowercase letter,
\* and both hold identifier characters only.
C10_CaseConvention ==
    pc2 = "done" =>
        /\ \A t \in DOMAIN refined_types :
            LET tok == refined_types[t]
            IN tok # <<>> =>
                /\ IsUpper(tok[1])
                /\ \A i \in 1..Len(tok) : IsWord(tok[i])
        /\ \A d \in DOMAIN refined_predicates :
            LET tok == refined_predicates[d]
            IN tok # <<>> =>
                /\ IsLower(tok[1])
                /\ \A i \in 1..Len(tok) : IsWord(tok[i])

\* C14: the heuristic canonicalizer never returns an empty token: heuristic_type and
\* heuristic_predicate give a non-empty token for every raw label of the input, and
\* so does every entry of a registry that was filled without the service.
C14_HeuristicNeverEmpty ==
    /\ \A t \in Range(data2.types) : Truthy(heuristic_type(t))
    /\ \A d \in Range(data2.predicates) : Truthy(heuristic_predicate(d))
    /\ ~use_llm =>
        /\ \A t \in DOMAIN type_mappings : Truthy(type_mappings[t])
        /\ \A d \in DOMAIN pred_mappings : Truthy(pred_mappings[d])

\* C15: with the service available no call of it carries more than BATCH_SIZE labels,
\* and when run() is through, n labels of a category have caused ceil(n / BATCH_SIZE)
\* calls, for the types as for the predicates.
C15_BatchesOfTen ==
    /\ \A k \in 1..Len(llm_calls) : llm_calls[k].size <= BATCH_SIZE
    /\ (use_llm /\ pc2 = "done" /\ result2 = "refined") =>
        /\ Len(CallsOf("types")) = Batches(Len(data2.types))
        /\ Len(CallsOf("predicates")) = Batches(Len(data2.predicates))

\* the tokens that a line of the grammar "integer, full stop, optional blanks, token"
\* gives for the integer n: the digits are all the characters before the full stop,
\* the token is the longest run of identifier characters after the blanks
LineTokens(line, n) ==
    LET s == Strip(line)
        digits == {nd \in 1..(Len(s) - 1) :
                        /\ s[nd + 1] = "."
                        /\ \A i \in 1..nd : IsDigit(s[i])
                        /\ IntOf(SubSeq(s, 1, nd)) = n}
        blanks(nd) == {ns \in 0..(Len(s) - nd - 1) :
                        \A i \in 1..ns : IsSpace(s[nd + 1 + i])}
        runs(from) == {nw \in 1..(Len(s) - from) :
                        /\ \A i \in 1..nw : IsWord(s[from + i])
                        /\ (from + nw = Len(s) \/ ~IsWord(s[from + nw + 1]))}
    IN UNION { UNION { {SubSeq(s, nd + ns + 2, nd + ns + 1 + nw) : nw \in runs(nd + ns + 1)}
                        : ns \in blanks(nd) } : nd \in digits }
\* the tokens the response text holds for the label at position n of the batch
ServiceTokens(text, n) ==
    UNION {LineTokens(SplitLines(text)[j], n) : j \in 1..Len(SplitLines(text))}

\* C16: in the batch of the latest call, a label holds a token of the service only if
\* a line of the response matches the grammar with the label's position (1 to the
\* number of labels in the batch) as its integer, and then it holds the token of such
\* a line; every other label of the batch holds its heuristic token, whatever the
\* other lines of the response are.
C16_LineGrammar ==
    llm_calls # <<>> =>
        LET c == llm_calls[Len(llm_calls)]
        IN \A n \in 1..Len(c.batch) :
            LET label == c.batch[n]
                given == ServiceTokens(c.text, n)
            IN IF c.category = "types"
               THEN IF given = {}
                    THEN type_mappings[label] = heuristic_type(label)
                    ELSE type_mappings[label] \in given
               ELSE IF given = {}
                    THEN pred_mappings[label] = heuristic_predicate(label)
                    ELSE pred_mappings[label] \in {LowerFirst(tok) : tok \in given}
\* a call for ten predicates was answered with a line for position 2 and a line for
\* position 11: the second label holds the service's token, the first its heuristic
\* token
C16_Witness ==
    /\ llm_calls # <<>>
    /\ LET c == llm_calls[Len(llm_calls)]
       IN /\ c.category = "predicates"
          /\ c.size = BATCH_SIZE
          /\ c.text = Strip(ResponseTexts[6])
          /\ ServiceTokens(c.text, 2) = {<<"W","o","r","k","s","F","o","r">>}
          /\ pred_mappings[c.batch[2]] = <<"w","o","r","k","s","F","o","r">>
          /\ ServiceTokens(c.text, 1) = {}
          /\ pred_mappings[c.batch[1]] = heuristic_predicate(c.batch[1])

(***************************************************************************)
(* Step 3: properties                                                      *)
(***************************************************************************)
\* the similarity of a query token and a candidate text, computed afresh
Similarity(query, description) == Dot(Encode(description), Encode(query))
\* the largest similarity of a query over a term set
BestScore(query, candidates) ==
    CHOOSE s \in {Similarity(query, candidates[i][2]) : i \in 1..Len(candidates)} :
        \A i \in 1..Len(candidates) : Similarity(query, candidates[i][2]) <= s
\* the first term of the term set, in iteration order, that reaches it
FirstBest(query, candidates) ==
    LET i == CHOOSE k \in 1..Len(candidates) :
                /\ Similarity(query, candidates[k][2]) = BestScore(query, candidates)
                /\ \A j \in 1..(k - 1) :
                    Similarity(query, candidates[j][2]) # BestScore(query, candidates)
    IN candidates[i][1]
TermSet(key) == IF key = "classes" THEN dbo_classes ELSE dbo_props

\* C2: when the term set of a category is empty after load_or_fetch, run() returns
\* None, aligns no label and does not write the mapped artifact.
C2_EmptyOntologyAborts ==
    (pc3 \in {"map_types", "map_predicates", "save", "done"}
        /\ (dbo_classes = <<>> \/ dbo_props = <<>>))
    => /\ pc3 = "done"
       /\ result3 = "None"
       /\ ~mapped_written
       /\ mapped_types = EmptyDict
       /\ mapped_predicates = EmptyDict
       /\ last_match = NoMatch
\* the classes were loaded, the properties had no cache and their fetch failed, and
\* run() has returned with predicates left to align
C2_Witness ==
    /\ pc3 = "done"
    /\ dbo_classes # <<>>
    /\ dbo_props = <<>>
    /\ ~cache_files.properties.exists
    /\ Len(data3.predicates) > 0
    /\ result3 = "None"

\* C3: find_best_match returns a term whose similarity is at least that of every
\* candidate, and of the candidates that reach the largest similarity the first in
\* iteration order; the score it returns is that term's similarity.
C3_ExactArgmaxFirstWins ==
    (last_match.key # "none" /\ ~last_match.raised) =>
        LET cands == TermSet(last_match.key)
            sim(i) == Similarity(last_match.query, cands[i][2])
        IN \E i \in 1..Len(cands) :
            /\ cands[i][1] = last_match.name
            /\ last_match.score = sim(i)
            /\ \A j \in 1..Len(cands) : sim(j) <= sim(i)
            /\ \A j \in 1..(i - 1) : sim(j) < sim(i)
\* a query that two classes match equally well was answered with the first of them
C3_Witness ==
    /\ last_match.key = "classes"
    /\ ~last_match.raised
    /\ Similarity(last_match.query, dbo_classes[1][2])
            = Similarity(last_match.query, dbo_classes[2][2])
    /\ last_match.name = dbo_classes[1][1]

\* C4: per category, a label whose best score is at least the category's threshold
\* gets the best-matching term and no fallback flag; a label whose best score is
\* below it gets the fixed fallback term with the fallback flag, the best match and
\* its score.
C4_ThresholdGate ==
    /\ \A i \in 1..Len(data3.types) :
        data3.types[i][1] \in DOMAIN mapped_types =>
            LET e == mapped_types[data3.types[i][1]]
                q == data3.types[i][2].refined
                s == BestScore(q, dbo_classes)
                b == FirstBest(q, dbo_classes)
            IN IF s >= config3.TYPE_SIMILARITY_THRESHOLD
               THEN /\ e.dbo_class = b
                    /\ e.dbo_uri = DBO(b)
                    /\ "fallback" \notin DOMAIN e
               ELSE /\ e.dbo_class = ClassThing
                    /\ e.dbo_uri = DBO(ClassThing)
                    /\ "fallback" \in DOMAIN e
                    /\ e.fallback
                    /\ e.best_match = b
                    /\ e.similarity = Round3(s)
    /\ \A i \in 1..Len(data3.predicates) :
        data3.predicates[i][1] \in DOMAIN mapped_predicates =>
            LET e == mapped_predicates[data3.predicates[i][1]]
                q == data3.predicates[i][2].refined
                s == BestScore(q, dbo_props)
                b == FirstBest(q, dbo_props)
            IN IF s >= config3.PREDICATE_SIMILARITY_THRESHOLD
               THEN /\ e.dbo_property = b
                    /\ e.dbo_uri = DBO(b)
                    /\ "fallback" \notin DOMAIN e
               ELSE /\ e.dbo_property = FALLBACK_PREDICATE
                    /\ e.dbo_uri = DBO(FALLBACK_PREDICATE)
                    /\ "fallback" \in DOMAIN e
                    /\ e.fallback
                    /\ e.best_match = b
                    /\ e.similarity = Round3(s)
\* run() has returned a registry in which a type whose best score equals the type
\* threshold is matched and a predicate below the other threshold is a fallback
C4_Witness ==
    /\ pc3 = "done"
    /\ result3 = "mapped"
    /\ config3.TYPE_SIMILARITY_THRESHOLD # config3.PREDICATE_SIMILARITY_THRESHOLD
    /\ \E i \in 1..Len(data3.types) :
        /\ BestScore(data3.types[i][2].refined, dbo_classes)
                = config3.TYPE_SIMILARITY_THRESHOLD
        /\ "fallback" \notin DOMAIN mapped_types[data3.types[i][1]]
    /\ \E i \in 1..Len(data3.predicates) :
        /\ BestScore(data3.predicates[i][2].refined, dbo_props)
                < config3.PREDICATE_SIMILARITY_THRESHOLD
        /\ "fallback" \in DOMAIN mapped_predicates[data3.predicates[i][1]]

\* the number of find_best_match calls map_to_dbo has made
MatchCalls ==
    type_mapped + type_fallback + pred_mapped + pred_fallback
        + (IF result3 = "raised" THEN 1 ELSE 0)

\* C13: in one EmbeddingMapper the candidate texts of a category are embedded at most
\* once, at the first query of the category; every find_best_match embeds its query
\* token and nothing else once the category is cached; and the vectors cached for a
\* category stay those of its term set through the queries of both categories.
C13_CandidatesEmbeddedOnce ==
    /\ encode_calls["query"] = MatchCalls
    /\ \A key \in {"classes", "properties"} :
        IF key \in DOMAIN mapper_embeddings
        THEN /\ encode_calls[key] = 1
             /\ mapper_embeddings[key] =
                    [i \in 1..Len(TermSet(key)) |-> Encode(TermSet(key)[i][2])]
        ELSE encode_calls[key] = 0
\* two types and two predicates were aligned: four query embeddings and one embedding
\* of each term set, the classes still cached as they were before the predicates
C13_Witness ==
    /\ pc3 = "done"
    /\ type_mapped + type_fallback = 2
    /\ pred_mapped + pred_fallback = 2
    /\ encode_calls = [k \in {"classes", "properties", "query"} |->
                            IF k = "query" THEN 4 ELSE 1]
    /\ DOMAIN mapper_embeddings = {"classes", "properties"}

\* C17: in every entry of the registries the fallback flag agrees with the similarity
\* the entry records (thousandths, against a threshold in millionths): the entry is
\* marked fallback exactly when its recorded similarity is below the threshold of its
\* category.
C17_FallbackFlagMatchesSimilarity ==
    /\ \A t \in DOMAIN mapped_types :
        LET e == mapped_types[t]
        IN ("fallback" \in DOMAIN e)
            <=> (e.similarity * 1000 < config3.TYPE_SIMILARITY_THRESHOLD)
    /\ \A d \in DOMAIN mapped_predicates :
        LET e == mapped_predicates[d]
        IN ("fallback" \in DOMAIN e)
            <=> (e.similarity * 1000 < config3.PREDICATE_SIMILARITY_THRESHOLD)

(***************************************************************************)
(* Step 4: properties                                                      *)
(***************************************************************************)
EntityNamesAdded == {entities[i].name : i \in 1..Len(entities)}
\* the position of the last entity in input order with this display name
LastNamed(name) ==
    CHOOSE i \in 1..Len(entities) :
        /\ entities[i].name = name
        /\ \A j \in 1..Len(entities) : entities[j].name = name => j <= i
TypeTriplesOf(node) == {t \in graph : t.s = node /\ t.p = RDF_type}
Resolves(rel) == rel.source \in EntityNamesAdded /\ rel.target \in EntityNamesAdded

\* C5: after convert_to_rdf every entity's node carries exactly one type triple: the
\* aligned class when original_type is non-empty and a key of the type registry,
\* otherwise the universal fallback class.
C5_ExactlyOneTypeTriple ==
    pc4 = "done" =>
        \A i \in 1..Len(entities) :
            LET e == entities[i]
                expected ==
                    IF e.original_type # <<>> /\ e.original_type \in DOMAIN data4.types
                    THEN data4.types[e.original_type]
                    ELSE FALLBACK_TYPE
            IN TypeTriplesOf(EntityUri(e)) = {Triple(EntityUri(e), RDF_type, expected)}

\* C6: the node identifier is collision-free: two entities with distinct source ids
\* get distinct node ids.
C6_DistinctIdsDistinctNodes ==
    \A i, j \in 1..Len(entities) :
        entities[i].id # entities[j].id =>
            create_entity_uri(entities[i].name, entities[i].id)
                # create_entity_uri(entities[j].name, entities[j].id)

\* C7: a relationship's endpoints resolve to the node of the last entity in input
\* order with that display name, never to the node of an earlier entity of that name.
C7_LastWriterWins ==
    \A k \in 1..Len(rel_log) :
        rel_log[k].added =>
            LET rel == relationships[k]
                t == rel_log[k].triple
            IN /\ t.s = EntityUri(entities[LastNamed(rel.source)])
               /\ t.o = EntityUri(entities[LastNamed(rel.target)])
               /\ \A j \in 1..Len(entities) :
                    /\ (entities[j].name = rel.source /\ j < LastNamed(rel.source))
                            => t.s # EntityUri(entities[j])
                    /\ (entities[j].name = rel.target /\ j < LastNamed(rel.target))
                            => t.o # EntityUri(entities[j])
\* a relationship was added whose source name two entities share
C7_Witness ==
    /\ pc4 = "done"
    /\ \E k \in 1..Len(rel_log) :
        /\ rel_log[k].added
        /\ \E i, j \in 1..Len(entities) :
            i < j /\ entities[i].name = relationships[k].source
                  /\ entities[j].name = relationships[k].source

\* C8: relationships_added + relationships_skipped is the number of input
\* relationships, and a relationship is skipped, yielding no triple, exactly when its
\* source name or its target name is absent from the name lookup.
C8_AddedPlusSkipped ==
    pc4 \in {"relationships", "done"} =>
        /\ rels_added + rels_skipped = Len(relationships)
        /\ \A k \in 1..Len(relationships) :
            (~rel_log[k].added) <=>
                (relationships[k].source \notin EntityNamesAdded
                    \/ relationships[k].target \notin EntityNamesAdded)
        /\ rels_skipped = Cardinality({k \in 1..Len(relationships) : ~rel_log[k].added})
\* the run ended with one relationship added and one skipped for a missing target
C8_Witness ==
    /\ pc4 = "done"
    /\ rels_added = 1
    /\ rels_skipped = 1
    /\ \E k \in 1..Len(relationships) :
        /\ relationships[k].source \in EntityNamesAdded
        /\ relationships[k].target \notin EntityNamesAdded

\* C9: every relationship whose endpoints both resolve yields a triple whose predicate
\* is the registry's aligned property when the description is non-empty and a key of
\* the registry, and the generic link predicate otherwise.
C9_PredicateResolution ==
    \A k \in 1..Len(relationships) :
        Resolves(relationships[k]) =>
            LET desc == relationships[k].original_description
                t == rel_log[k].triple
            IN /\ rel_log[k].added
               /\ t \in graph
               /\ (desc = <<>> => t.p = wikiPageWikiLink)
               /\ (desc \notin DOMAIN data4.predicates => t.p = wikiPageWikiLink)
               /\ (desc # <<>> /\ desc \in DOMAIN data4.predicates
                        => t.p = data4.predicates[desc])
\* the run added a relationship with an aligned predicate, one with an empty
\* description and one whose description the registry does not hold
C9_Witness ==
    /\ pc4 = "done"
    /\ \E k \in 1..Len(relationships) :
        /\ rel_log[k].added
        /\ relationships[k].original_description \in DOMAIN data4.predicates
    /\ \E k \in 1..Len(relationships) :
        /\ rel_log[k].added
        /\ relationships[k].original_description \in {<<>>, DescBar}


\* the triples of the graph that stand for relationships: those that are neither a
\* label nor a type triple
RelationshipTriples == {t \in graph : t.p \notin {RDFS_label, RDF_type}}

\* C18: the count of added relationships is the number of relationship triples in the
\* graph: every relationship counted as added has a triple of its own.
C18_AddedCountIsTripleCount ==
    rels_added = Cardinality(RelationshipTriples)

(***************************************************************************)
(* run_pipeline: properties                                                *)
(***************************************************************************)
\* the artifact a step reads and the artifact it writes
InputOf(num) ==
    CASE num = 1 -> "parquet" [] num = 2 -> "extracted" [] num = 3 -> "refined"
      [] OTHER -> "mapped"
OutputOf(num) ==
    CASE num = 1 -> "extracted" [] num = 2 -> "refined" [] num = 3 -> "mapped"
      [] OTHER -> "final"
PcOf(num) == CASE num = 1 -> pc1 [] num = 2 -> pc2 [] num = 3 -> pc3 [] OTHER -> pc4
ResultOf(num) ==
    CASE num = 1 -> result1 [] num = 2 -> result2 [] num = 3 -> result3
      [] OTHER -> result4
WrittenBy(num) ==
    CASE num = 1 -> extracted_written [] num = 2 -> refined_written
      [] num = 3 -> mapped_written [] OTHER -> rdf_written
Succeeded(entry) == entry.result \notin {"running", "None", "raised"}

\* C11: run_steps calls the selected steps in increasing order, each once and one at
\* a time; a step is called only after the step before it has returned a result
\* other than None with its artifact written; once a step has returned None no
\* further step is called, validate() is not called, and main returns a non-zero
\* status; main returns 0 only after every selected step has succeeded.
C11_StagedSequentialRun ==
    /\ \A i \in 1..Len(run_log) :
        /\ run_log[i].stage = FromStep(args) + i - 1
        /\ run_log[i].stage <= ToStep(args)
    /\ \A i \in 1..(Len(run_log) - 1) :
        /\ Succeeded(run_log[i])
        /\ run_log[i].persisted
        /\ run_log[i + 1].files[OutputOf(run_log[i].stage)].exists
    /\ \A num \in 1..4 :
        PcOf(num) # "idle" =>
            /\ pcr = "call"
            /\ stage = num
            /\ run_log[Len(run_log)].stage = num
            /\ run_log[Len(run_log)].result = "running"
    /\ \A i \in 1..Len(run_log) :
        run_log[i].result = "None" =>
            /\ i = Len(run_log)
            /\ pcr = "exit"
            /\ exit_status = 1
            /\ ~validated
            /\ \A num \in 1..4 : PcOf(num) = "idle"
    /\ (validated \/ exit_status = 0) =>
        /\ Len(run_log) = ToStep(args) - FromStep(args) + 1
        /\ \A i \in 1..Len(run_log) : Succeeded(run_log[i]) /\ run_log[i].persisted
\* a run of all four steps in which steps 1 and 2 wrote their artifacts and step 3
\* returned None: step 4 and validate() were not run, and main returned 1
C11_Witness ==
    /\ FromStep(args) = 1
    /\ ToStep(args) = 4
    /\ Len(run_log) = 3
    /\ run_log[1].persisted
    /\ run_log[2].persisted
    /\ run_log[3].result = "None"
    /\ pcr = "exit"
    /\ exit_status = 1
    /\ ~validated

\* C12: a step 2, 3 or 4 that is called while the artifact of the step before it is
\* absent goes from its first test straight to returning None: it calls no external
\* service and leaves its own artifact as it was when the step was called; and
\* run_steps calls nothing after it.
C12_MissingArtifactAborts ==
    /\ \A num \in 2..4 :
        (PcOf(num) # "idle" /\ ~files[InputOf(num)].exists) =>
            /\ PcOf(num) \in {"start", "done"}
            /\ PcOf(num) = "done" => ResultOf(num) = "None"
            /\ external_calls = 0
            /\ llm_calls = <<>>
            /\ encode_calls = NoEncodeCalls
            /\ ~WrittenBy(num)
            /\ run_log # <<>> =>
                files[OutputOf(num)] = run_log[Len(run_log)].files[OutputOf(num)]
    /\ \A i \in 1..Len(run_log) :
        LET entry == run_log[i]
        IN (entry.stage \in 2..4 /\ ~entry.files[InputOf(entry.stage)].exists) =>
            /\ entry.result \in {"running", "None"}
            /\ ~entry.persisted
            /\ files[OutputOf(entry.stage)] = entry.files[OutputOf(entry.stage)]
            /\ i = Len(run_log)
\* step 3 was called without the refined artifact and has returned None, with a
\* mapped artifact of an earlier run left as it was
C12_Witness ==
    /\ run_log # <<>>
    /\ LET entry == run_log[Len(run_log)]
       IN /\ entry.stage = 3
          /\ ~entry.files.refined.exists
          /\ entry.files.mapped.exists
          /\ entry.result = "None"
          /\ files.mapped = entry.files.mapped
    /\ pcr = "exit"
    /\ exit_status = 1

(***************************************************************************)
(* Specifications: each step run by itself on an artifact of its input     *)
(***************************************************************************)
\* python steps/step2_refine_llm.py
InitRefine ==
    /\ files \in {[NoFiles EXCEPT !.extracted = f] :
                    f \in {AbsentFile} \cup {File(c) : c \in ExtractedContents}}
    /\ external_calls = 0
    /\ IdleR /\ Idle1 /\ Idle3 /\ Idle4 /\ Init2
SpecRefine == InitRefine /\ [][Next2]_vars

\* python steps/step3_map_dbo.py
InitMap ==
    /\ files \in {[NoFiles EXCEPT !.refined = f] :
                    f \in {AbsentFile} \cup {File(c) : c \in RefinedContents}}
    /\ external_calls = 0
    /\ IdleR /\ Idle1 /\ Idle2 /\ Idle4 /\ Init3
SpecMap == InitMap /\ [][Next3]_vars

\* python steps/step4_convert_rdf.py
InitRdf ==
    /\ files \in {[NoFiles EXCEPT !.mapped = f] :
                    f \in {AbsentFile} \cup {File(c) : c \in MappedContents}}
    /\ external_calls = 0
    /\ IdleR /\ Idle1 /\ Idle2 /\ Idle3 /\ Init4
SpecRdf == InitRdf /\ [][Next4]_vars

\* python run_pipeline.py [--step N] [--from N]
SpecPipeline == InitPipeline /\ [][NextPipeline]_vars

====
